---- MODULE Spec2Model ----
(***************************************************************************)
(* Model of beacon_node/network/src/beacon_processor/worker/sync_methods.rs *)
(* (lighthouse): the single-block RPC importer process_rpc_block, the       *)
(* batch dispatcher process_chain_segment, the importers process_blocks and *)
(* process_backfill_blocks, run_fork_choice and the classifier              *)
(* handle_failed_chain_segment.                                             *)
(*                                                                         *)
(* Every invocation runs on its own worker.  The handlers are synchronous; *)
(* a worker's position (pc) changes at each call into a shared             *)
(* collaborator (duplicate cache, beacon chain, channels), which is where  *)
(* concurrent invocations interleave.                                      *)
(***************************************************************************)
EXTENDS Naturals, Sequences, FiniteSets, TLC

\* ---------------------------------------------------------------- bounds
NumWorkers == 2        \* concurrent invocations
NumBlocks == 2         \* distinct block roots
MaxBatch == 5          \* longest batch of downloaded blocks
MaxSlot == 2           \* largest slot in a FutureSlot rejection

Workers == 1..NumWorkers
BlockIds == 1..NumBlocks
Slots == 0..MaxSlot
ChainIds == {"c1", "c2"}
Epochs == {0, 1}
PeerIds == {"p1", "p2"}

\* ------------------------------------------------------------ data types
\* ProcessId (lines 17-24)
RangeBatchId(chain_id, epoch) ==
    [kind |-> "RangeBatchId", chain_id |-> chain_id, epoch |-> epoch]
BackSyncBatchId(epoch) ==
    [kind |-> "BackSyncBatchId", epoch |-> epoch]
ParentLookup(peer_id, chain_head) ==
    [kind |-> "ParentLookup", peer_id |-> peer_id, chain_head |-> chain_head]

ProcessIds ==
    {RangeBatchId(c, e) : c \in ChainIds, e \in Epochs}
        \cup {BackSyncBatchId(e) : e \in Epochs}
        \cup {ParentLookup(p, h) : p \in PeerIds, h \in BlockIds}

\* Option<PeerAction>: this file only ever names PeerAction::LowToleranceError.
NoPeerAction == "None"
LowToleranceError == "LowToleranceError"

\* BlockError, the rejection reasons of chain.process_block and
\* chain.process_chain_segment.  The variants the classifier names, and three
\* of the variants that fall in its `other` arm.  A FutureSlot rejection is
\* of a block whose slot is beyond the present slot.
OtherBlockErrorKinds == {"StateRootMismatch", "ProposalSignatureInvalid", "NonLinearSlots"}
BlockError(kind) == [kind |-> kind]
FutureSlot(present_slot, block_slot) ==
    [kind |-> "FutureSlot", present_slot |-> present_slot, block_slot |-> block_slot]
BlockErrors ==
    {BlockError(k) : k \in {"ParentUnknown", "BlockIsAlreadyKnown",
                            "WouldRevertFinalizedSlot", "GenesisBlock",
                            "BeaconChainError"} \cup OtherBlockErrorKinds}
        \cup {FutureSlot(sl[1], sl[2]) : sl \in {x \in Slots \X Slots : x[2] > x[1]}}

\* Result<Hash256, BlockError>, the result of chain.process_block
OkRoot(root) == [ok |-> TRUE, root |-> root]
ErrBlock(error) == [ok |-> FALSE, error |-> error]

\* Result<(), ChainSegmentFailed> (lines 27-32); `message` is log text only.
OkUnit == [ok |-> TRUE]
ChainSegmentFailed(peer_action) == [ok |-> FALSE, peer_action |-> peer_action]

\* --------------------------------------------------------------- state
VARIABLES
    cache,              \* DuplicateCache: the block roots being imported
    gossip,             \* roots whose handle the gossip import path holds
    pc,                 \* position of each worker's invocation
    block,              \* process_rpc_block: block_root of the request
    claimed,            \* process_rpc_block: <<TRUE>> if check_and_insert gave
                        \* Some(handle), <<FALSE>> if None
    handle,             \* process_rpc_block: <<root>> while the handle is held
    block_result,       \* process_rpc_block: <<result>> once process_block returned
    process_block_calls,\* calls of chain.process_block by the invocation
    reprocess_sent,     \* try_send attempts on reprocess_tx by the invocation
    result_sent,        \* send attempts on result_tx by the invocation
    process_id,         \* process_chain_segment: <<process_id>>
    downloaded_blocks,  \* process_chain_segment: the blocks given
    segment,            \* the blocks handed to the chain collaborator
    chain_result,       \* <<result>> of the chain collaborator's batch import
    returned,           \* <<(imported_blocks, Result)>> returned by the importer
    fork_choice,        \* results of the chain.fork_choice() calls made
    logged,             \* severities of the classifier's log lines
    sync_sent           \* messages sent to the sync coordinator

rpcVars == <<block, claimed, handle, block_result, process_block_calls, reprocess_sent, result_sent>>
segVars == <<process_id, downloaded_blocks, segment, chain_result, returned,
             fork_choice, logged, sync_sent>>
vars == <<cache, gossip, pc, rpcVars, segVars>>

Init ==
    /\ cache = {}
    /\ gossip = {}
    /\ pc = [w \in Workers |-> "idle"]
    /\ block = [w \in Workers |-> 0]
    /\ claimed = [w \in Workers |-> <<>>]
    /\ handle = [w \in Workers |-> <<>>]
    /\ block_result = [w \in Workers |-> <<>>]
    /\ process_block_calls = [w \in Workers |-> 0]
    /\ reprocess_sent = [w \in Workers |-> <<>>]
    /\ result_sent = [w \in Workers |-> <<>>]
    /\ process_id = [w \in Workers |-> <<>>]
    /\ downloaded_blocks = [w \in Workers |-> <<>>]
    /\ segment = [w \in Workers |-> <<>>]
    /\ chain_result = [w \in Workers |-> <<>>]
    /\ returned = [w \in Workers |-> <<>>]
    /\ fork_choice = [w \in Workers |-> <<>>]
    /\ logged = [w \in Workers |-> <<>>]
    /\ sync_sent = [w \in Workers |-> <<>>]

\* A worker is free to take a new unit of work.
Free(w) == pc[w] = "idle"

\* The handler returns: the invocation and its locals are gone, and the
\* worker is free again.
Return(w) ==
    /\ pc[w] \in {"rpc_done", "segment_done"}
    /\ pc' = [pc EXCEPT ![w] = "idle"]
    /\ block' = [block EXCEPT ![w] = 0]
    /\ claimed' = [claimed EXCEPT ![w] = <<>>]
    /\ handle' = [handle EXCEPT ![w] = <<>>]
    /\ block_result' = [block_result EXCEPT ![w] = <<>>]
    /\ process_block_calls' = [process_block_calls EXCEPT ![w] = 0]
    /\ reprocess_sent' = [reprocess_sent EXCEPT ![w] = <<>>]
    /\ result_sent' = [result_sent EXCEPT ![w] = <<>>]
    /\ process_id' = [process_id EXCEPT ![w] = <<>>]
    /\ downloaded_blocks' = [downloaded_blocks EXCEPT ![w] = <<>>]
    /\ segment' = [segment EXCEPT ![w] = <<>>]
    /\ chain_result' = [chain_result EXCEPT ![w] = <<>>]
    /\ returned' = [returned EXCEPT ![w] = <<>>]
    /\ fork_choice' = [fork_choice EXCEPT ![w] = <<>>]
    /\ logged' = [logged EXCEPT ![w] = <<>>]
    /\ sync_sent' = [sync_sent EXCEPT ![w] = <<>>]
    /\ UNCHANGED <<cache, gossip>>

\* ------------------------------------------------------- Duplicate Guard
\* DuplicateCache::check_and_insert: an atomic test-and-set of the root.
\* <<>> is None, <<root>> is Some(handle).
check_and_insert(c, block_root) ==
    IF block_root \in c
    THEN [handle |-> <<>>, cache |-> c]
    ELSE [handle |-> <<block_root>>, cache |-> c \cup {block_root}]

\* Dropping a handle removes its root from the cache.
drop(c, h) == c \ {h[i] : i \in DOMAIN h}

\* The gossip import path claims a root while it imports the block ...
GossipClaim(b) ==
    /\ check_and_insert(cache, b).handle # <<>>
    /\ cache' = check_and_insert(cache, b).cache
    /\ gossip' = gossip \cup {b}
    /\ UNCHANGED <<pc, rpcVars, segVars>>

\* ... and drops the handle when its import is over.
GossipRelease(b) ==
    /\ b \in gossip
    /\ cache' = drop(cache, <<b>>)
    /\ gossip' = gossip \ {b}
    /\ UNCHANGED <<pc, rpcVars, segVars>>

\* ---------------------------------------------------- process_rpc_block
\* RpcClaim with the claim's answer not looked at: process_block is called
\* whether or not a handle was given.
RpcClaim_IgnoresGuard(w, b) ==
    /\ Free(w)
    /\ LET c == check_and_insert(cache, b) IN
        /\ cache' = c.cache
        /\ claimed' = [claimed EXCEPT ![w] = <<c.handle # <<>>>>]
        /\ handle' = [handle EXCEPT ![w] = c.handle]
    /\ pc' = [pc EXCEPT ![w] = "process_block"]
    /\ block' = [block EXCEPT ![w] = b]
    /\ UNCHANGED <<gossip, block_result, process_block_calls, reprocess_sent,
                   result_sent, segVars>>

\* RpcClaim with the handle bound to nothing (`if let Some(_) = ...`): it is
\* dropped before process_block is called.
RpcClaim_DropsHandleAtOnce(w, b) ==
    /\ Free(w)
    /\ LET c == check_and_insert(cache, b) IN
        /\ cache' = drop(c.cache, c.handle)
        /\ claimed' = [claimed EXCEPT ![w] = <<c.handle # <<>>>>]
        /\ handle' = [handle EXCEPT ![w] = <<>>]
        /\ pc' = [pc EXCEPT ![w] = IF c.handle # <<>> THEN "process_block"
                                                      ELSE "respond_known"]
    /\ block' = [block EXCEPT ![w] = b]
    /\ UNCHANGED <<gossip, block_result, process_block_calls, reprocess_sent,
                   result_sent, segVars>>

\* Lines 46-50 and 80: claim the root; with the handle, call
\* chain.process_block, else take the else-branch.
RpcClaim(w, b) ==
    /\ Free(w)
    /\ LET c == check_and_insert(cache, b) IN
        /\ cache' = c.cache
        /\ claimed' = [claimed EXCEPT ![w] = <<c.handle # <<>>>>]
        /\ handle' = [handle EXCEPT ![w] = c.handle]
        /\ pc' = [pc EXCEPT ![w] = IF c.handle # <<>> THEN "process_block"
                                                      ELSE "respond_known"]
    /\ block' = [block EXCEPT ![w] = b]
    /\ UNCHANGED <<gossip, block_result, process_block_calls, reprocess_sent,
                   result_sent, segVars>>

\* Line 50: chain.process_block returns Ok(root) or any rejection.
RpcProcessBlockReturns(w, errors) ==
    /\ pc[w] = "process_block"
    /\ \E res \in {OkRoot(block[w])} \cup {ErrBlock(e) : e \in errors} :
        /\ block_result' = [block_result EXCEPT ![w] = <<res>>]
        /\ pc' = [pc EXCEPT ![w] = IF res.ok THEN "notify" ELSE "respond"]
    /\ process_block_calls' = [process_block_calls EXCEPT ![w] = @ + 1]
    /\ UNCHANGED <<cache, gossip, block, claimed, handle, reprocess_sent, result_sent, segVars>>

\* RpcNotify that turns the result into an error when the notification could
\* not be sent.
RpcNotify_FailsResultOnFailedSend(w, outcomes) ==
    /\ pc[w] = "notify"
    /\ \E delivered \in outcomes :
        /\ reprocess_sent' = [reprocess_sent EXCEPT ![w] =
            Append(@, [msg |-> "BlockImported", root |-> block_result[w][1].root,
                       delivered |-> delivered])]
        /\ block_result' = [block_result EXCEPT ![w] =
            IF delivered THEN @ ELSE <<ErrBlock(BlockError("BeaconChainError"))>>]
    /\ pc' = [pc EXCEPT ![w] = "respond"]
    /\ UNCHANGED <<cache, gossip, block, claimed, handle, process_block_calls,
                   result_sent, segVars>>

\* Lines 54-73: on Ok(root), try_send BlockImported(root); a failed send is
\* logged and nothing else.  outcomes: whether a send can succeed, fail.
RpcNotify(w, outcomes) ==
    /\ pc[w] = "notify"
    /\ \E delivered \in outcomes :
        reprocess_sent' = [reprocess_sent EXCEPT ![w] =
            Append(@, [msg |-> "BlockImported", root |-> block_result[w][1].root,
                       delivered |-> delivered])]
    /\ pc' = [pc EXCEPT ![w] = "respond"]
    /\ UNCHANGED <<cache, gossip, block, claimed, handle, block_result, process_block_calls,
                   result_sent, segVars>>

\* RpcRespond with the handle dropped before the result is sent.
RpcRespond_ReleasesBeforeSend(w, outcomes) ==
    /\ pc[w] = "respond"
    /\ cache' = drop(cache, handle[w])
    /\ handle' = [handle EXCEPT ![w] = <<>>]
    /\ \E delivered \in outcomes :
        result_sent' = [result_sent EXCEPT ![w] =
            Append(@, [result |-> block_result[w][1], delivered |-> delivered])]
    /\ pc' = [pc EXCEPT ![w] = "drop"]
    /\ UNCHANGED <<gossip, block, claimed, block_result, process_block_calls,
                   reprocess_sent, segVars>>

\* RpcRespond that sends again when the send failed.
RpcRespond_RetriesFailedSend(w, outcomes) ==
    /\ pc[w] = "respond"
    /\ \E delivered \in outcomes, again \in outcomes :
        result_sent' = [result_sent EXCEPT ![w] =
            IF delivered
            THEN Append(@, [result |-> block_result[w][1], delivered |-> delivered])
            ELSE @ \o <<[result |-> block_result[w][1], delivered |-> delivered],
                        [result |-> block_result[w][1], delivered |-> again]>>]
    /\ pc' = [pc EXCEPT ![w] = "drop"]
    /\ UNCHANGED <<cache, gossip, block, claimed, handle, block_result,
                   process_block_calls, reprocess_sent, segVars>>

\* Lines 75-77: send the result; a failed send is logged and nothing else.
RpcRespond(w, outcomes) ==
    /\ pc[w] = "respond"
    /\ \E delivered \in outcomes :
        result_sent' = [result_sent EXCEPT ![w] =
            Append(@, [result |-> block_result[w][1], delivered |-> delivered])]
    /\ pc' = [pc EXCEPT ![w] = "drop"]
    /\ UNCHANGED <<cache, gossip, block, claimed, handle, block_result, process_block_calls,
                   reprocess_sent, segVars>>

\* RpcDrop that lets go of the handle without the root leaving the cache.
RpcDrop_LeavesRoot(w) ==
    /\ pc[w] = "drop"
    /\ handle' = [handle EXCEPT ![w] = <<>>]
    /\ pc' = [pc EXCEPT ![w] = "rpc_done"]
    /\ UNCHANGED <<cache, gossip, block, claimed, block_result, process_block_calls,
                   reprocess_sent, result_sent, segVars>>

\* Line 79: drop(handle).
RpcDrop(w) ==
    /\ pc[w] = "drop"
    /\ cache' = drop(cache, handle[w])
    /\ handle' = [handle EXCEPT ![w] = <<>>]
    /\ pc' = [pc EXCEPT ![w] = "rpc_done"]
    /\ UNCHANGED <<gossip, block, claimed, block_result, process_block_calls, reprocess_sent,
                   result_sent, segVars>>

\* RpcRespondKnown that answers only once the other import has let go of the
\* root.
RpcRespondKnown_WaitsForImport(w, outcomes) ==
    /\ pc[w] = "respond_known"
    /\ block[w] \notin cache
    /\ \E delivered \in outcomes :
        result_sent' = [result_sent EXCEPT ![w] =
            Append(@, [result |-> ErrBlock(BlockError("BlockIsAlreadyKnown")),
                       delivered |-> delivered])]
    /\ pc' = [pc EXCEPT ![w] = "rpc_done"]
    /\ UNCHANGED <<cache, gossip, block, claimed, handle, block_result,
                   process_block_calls, reprocess_sent, segVars>>

\* Lines 80-99: the root is being imported by another source; answer
\* Err(BlockIsAlreadyKnown).
RpcRespondKnown(w, outcomes) ==
    /\ pc[w] = "respond_known"
    /\ \E delivered \in outcomes :
        result_sent' = [result_sent EXCEPT ![w] =
            Append(@, [result |-> ErrBlock(BlockError("BlockIsAlreadyKnown")),
                       delivered |-> delivered])]
    /\ pc' = [pc EXCEPT ![w] = "rpc_done"]
    /\ UNCHANGED <<cache, gossip, block, claimed, handle, block_result, process_block_calls,
                   reprocess_sent, segVars>>

\* ------------------------------------------------ chain collaborator
\* ChainSegmentResult, the answer of chain.process_chain_segment (lines
\* 213-226): Successful with the number of blocks imported, or Failed with the
\* number imported before the failing block and that block's rejection.
Successful(imported_blocks) ==
    [kind |-> "Successful", imported_blocks |-> imported_blocks]
FailedSegment(imported_blocks, error) ==
    [kind |-> "Failed", imported_blocks |-> imported_blocks, error |-> error]
ChainSegmentResults(blocks, errors) ==
    {Successful(n) : n \in 0..Len(blocks)}
        \cup {FailedSegment(n, e) : n \in 0..(Len(blocks) - 1), e \in errors}

\* BeaconChainError as chain.import_historical_block_batch returns it (lines
\* 254-344): a HistoricalBlockError, or any other chain error.
HistoricalBlockErrorKinds ==
    {"MismatchedBlockRoot", "InvalidSignature", "SignatureSet",
     "ValidatorPubkeyCacheTimeout", "NoAnchorInfo", "IndexOutOfBounds",
     "BlockOutOfRange"}
HistoricalBlockError(e) == [kind |-> "HistoricalBlockError", e |-> e]
OtherChainError == [kind |-> "DBError"]
HistoricalErrors ==
    {HistoricalBlockError(e) : e \in HistoricalBlockErrorKinds} \cup {OtherChainError}

\* Result<usize, BeaconChainError> of chain.import_historical_block_batch
OkImported(imported_blocks) == [ok |-> TRUE, imported_blocks |-> imported_blocks]
ErrChain(error) == [ok |-> FALSE, error |-> error]
HistoricalResults(blocks, errors) ==
    {OkImported(n) : n \in 0..Len(blocks)} \cup {ErrChain(e) : e \in errors}

\* ------------------------------------------- handle_failed_chain_segment
\* FUTURE_SLOT_TOLERANCE of beacon_processor::worker (imported at line 2).
FUTURE_SLOT_TOLERANCE == 1

\* The classifier that fails the segment on an already known block.
handle_failed_chain_segment_KnownIsFailure(error) ==
    CASE error.kind = "ParentUnknown" -> ChainSegmentFailed(LowToleranceError)
      [] error.kind = "BlockIsAlreadyKnown" -> ChainSegmentFailed(NoPeerAction)
      [] error.kind = "FutureSlot" -> ChainSegmentFailed(LowToleranceError)
      [] error.kind = "WouldRevertFinalizedSlot" -> OkUnit
      [] error.kind = "GenesisBlock" -> OkUnit
      [] error.kind = "BeaconChainError" -> ChainSegmentFailed(NoPeerAction)
      [] OTHER -> ChainSegmentFailed(NoPeerAction)

\* The classifier with a penalty for the rejections of its `other` arm.
handle_failed_chain_segment_PenalizesInvalid(error) ==
    CASE error.kind = "ParentUnknown" -> ChainSegmentFailed(LowToleranceError)
      [] error.kind = "BlockIsAlreadyKnown" -> OkUnit
      [] error.kind = "FutureSlot" -> ChainSegmentFailed(LowToleranceError)
      [] error.kind = "WouldRevertFinalizedSlot" -> OkUnit
      [] error.kind = "GenesisBlock" -> OkUnit
      [] error.kind = "BeaconChainError" -> ChainSegmentFailed(NoPeerAction)
      [] OTHER -> ChainSegmentFailed(LowToleranceError)

\* The classifier with no penalty for a FutureSlot within the tolerance.
handle_failed_chain_segment_ForgivesWithinTolerance(error) ==
    CASE error.kind = "ParentUnknown" -> ChainSegmentFailed(LowToleranceError)
      [] error.kind = "BlockIsAlreadyKnown" -> OkUnit
      [] error.kind = "FutureSlot" ->
            IF error.present_slot + FUTURE_SLOT_TOLERANCE >= error.block_slot
            THEN ChainSegmentFailed(NoPeerAction)
            ELSE ChainSegmentFailed(LowToleranceError)
      [] error.kind = "WouldRevertFinalizedSlot" -> OkUnit
      [] error.kind = "GenesisBlock" -> OkUnit
      [] error.kind = "BeaconChainError" -> ChainSegmentFailed(NoPeerAction)
      [] OTHER -> ChainSegmentFailed(NoPeerAction)

\* Lines 370-455.
handle_failed_chain_segment(error) ==
    CASE error.kind = "ParentUnknown" -> ChainSegmentFailed(LowToleranceError)
      [] error.kind = "BlockIsAlreadyKnown" -> OkUnit
      [] error.kind = "FutureSlot" -> ChainSegmentFailed(LowToleranceError)
      [] error.kind = "WouldRevertFinalizedSlot" -> OkUnit
      [] error.kind = "GenesisBlock" -> OkUnit
      [] error.kind = "BeaconChainError" -> ChainSegmentFailed(NoPeerAction)
      [] OTHER -> ChainSegmentFailed(NoPeerAction)

\* The severities of the log lines handle_failed_chain_segment writes for a
\* rejection (lines 392-409, 421, 425, 429, 442): the FutureSlot arm warns
\* when present_slot + FUTURE_SLOT_TOLERANCE >= block_slot and logs at debug
\* otherwise.
classifier_log(error) ==
    CASE error.kind = "ParentUnknown" -> <<>>
      [] error.kind = "BlockIsAlreadyKnown" -> <<>>
      [] error.kind = "FutureSlot" ->
            IF error.present_slot + FUTURE_SLOT_TOLERANCE >= error.block_slot
            THEN <<"warn">>
            ELSE <<"debug">>
      [] error.kind = "WouldRevertFinalizedSlot" -> <<"debug">>
      [] error.kind = "GenesisBlock" -> <<"debug">>
      [] error.kind = "BeaconChainError" -> <<"warn">>
      [] OTHER -> <<"debug">>

\* ------------------------------------------------------- run_fork_choice
\* Lines 353-367: one call of chain.fork_choice(); its result (fc) is logged
\* and dropped.  The value is the record of the call.
run_fork_choice(fc) == <<fc>>

\* -------------------------------------------------------- process_blocks
\* process_blocks that runs fork choice only after a Successful segment.
process_blocks_NoForkChoiceOnFailure(result, fc) ==
    IF result.kind = "Successful"
    THEN [imported_blocks |-> result.imported_blocks,
          r |-> OkUnit,
          fork_choice |-> IF result.imported_blocks > 0 THEN run_fork_choice(fc)
                                                        ELSE <<>>]
    ELSE [imported_blocks |-> result.imported_blocks,
          r |-> handle_failed_chain_segment(result.error),
          fork_choice |-> <<>>]

\* process_blocks that returns an error when fork choice failed.
process_blocks_PropagatesForkChoiceError(result, fc) ==
    IF result.kind = "Successful"
    THEN [imported_blocks |-> result.imported_blocks,
          r |-> IF result.imported_blocks > 0 /\ ~fc
                THEN ChainSegmentFailed(NoPeerAction) ELSE OkUnit,
          fork_choice |-> IF result.imported_blocks > 0 THEN run_fork_choice(fc)
                                                        ELSE <<>>]
    ELSE [imported_blocks |-> result.imported_blocks,
          r |-> handle_failed_chain_segment(result.error),
          fork_choice |-> IF result.imported_blocks > 0 THEN run_fork_choice(fc)
                                                        ELSE <<>>]

\* Lines 213-234, on the answer of chain.process_chain_segment; fc is the
\* result chain.fork_choice() gives if it is called.
process_blocks(result, fc) ==
    IF result.kind = "Successful"
    THEN [imported_blocks |-> result.imported_blocks,
          r |-> OkUnit,
          fork_choice |-> IF result.imported_blocks > 0 THEN run_fork_choice(fc)
                                                        ELSE <<>>]
    ELSE [imported_blocks |-> result.imported_blocks,
          r |-> handle_failed_chain_segment(result.error),
          fork_choice |-> IF result.imported_blocks > 0 THEN run_fork_choice(fc)
                                                        ELSE <<>>]

\* ----------------------------------------------- process_backfill_blocks
\* The historical classifier with a fatal penalty for a bad signature.
backfill_error_FatalOnBadSignature(error) ==
    IF error.kind = "HistoricalBlockError"
    THEN CASE error.e = "MismatchedBlockRoot" -> ChainSegmentFailed(LowToleranceError)
           [] error.e \in {"InvalidSignature", "SignatureSet"} ->
                ChainSegmentFailed("Fatal")
           [] error.e = "ValidatorPubkeyCacheTimeout" -> ChainSegmentFailed(NoPeerAction)
           [] error.e = "NoAnchorInfo" -> ChainSegmentFailed(NoPeerAction)
           [] error.e = "IndexOutOfBounds" -> ChainSegmentFailed(NoPeerAction)
           [] error.e = "BlockOutOfRange" -> ChainSegmentFailed(NoPeerAction)
    ELSE ChainSegmentFailed(NoPeerAction)

\* The historical classifier with a penalty for a pubkey cache timeout.
backfill_error_PenalizesTimeout(error) ==
    IF error.kind = "HistoricalBlockError"
    THEN CASE error.e = "MismatchedBlockRoot" -> ChainSegmentFailed(LowToleranceError)
           [] error.e \in {"InvalidSignature", "SignatureSet"} ->
                ChainSegmentFailed(LowToleranceError)
           [] error.e = "ValidatorPubkeyCacheTimeout" ->
                ChainSegmentFailed(LowToleranceError)
           [] error.e = "NoAnchorInfo" -> ChainSegmentFailed(NoPeerAction)
           [] error.e = "IndexOutOfBounds" -> ChainSegmentFailed(NoPeerAction)
           [] error.e = "BlockOutOfRange" -> ChainSegmentFailed(NoPeerAction)
    ELSE ChainSegmentFailed(NoPeerAction)

\* Lines 242-348, on the answer of chain.import_historical_block_batch.
backfill_error(error) ==
    IF error.kind = "HistoricalBlockError"
    THEN CASE error.e = "MismatchedBlockRoot" -> ChainSegmentFailed(LowToleranceError)
           [] error.e \in {"InvalidSignature", "SignatureSet"} ->
                ChainSegmentFailed(LowToleranceError)
           [] error.e = "ValidatorPubkeyCacheTimeout" -> ChainSegmentFailed(NoPeerAction)
           [] error.e = "NoAnchorInfo" -> ChainSegmentFailed(NoPeerAction)
           [] error.e = "IndexOutOfBounds" -> ChainSegmentFailed(NoPeerAction)
           [] error.e = "BlockOutOfRange" -> ChainSegmentFailed(NoPeerAction)
    ELSE ChainSegmentFailed(NoPeerAction)

\* process_backfill_blocks that runs fork choice as process_blocks does.
process_backfill_blocks_RunsForkChoice(result) ==
    IF result.ok
    THEN [imported_blocks |-> result.imported_blocks, r |-> OkUnit,
          fork_choice |-> IF result.imported_blocks > 0 THEN run_fork_choice(TRUE)
                                                        ELSE <<>>]
    ELSE [imported_blocks |-> 0, r |-> backfill_error(result.error), fork_choice |-> <<>>]

process_backfill_blocks(result) ==
    IF result.ok
    THEN [imported_blocks |-> result.imported_blocks, r |-> OkUnit, fork_choice |-> <<>>]
    ELSE [imported_blocks |-> 0, r |-> backfill_error(result.error), fork_choice |-> <<>>]

\* ------------------------------------------------- process_chain_segment
\* SyncMessage, SyncRequestType and BatchProcessResult as lines 125-197 build
\* them.
RangeSync(epoch, chain_id) == [kind |-> "RangeSync", epoch |-> epoch, chain_id |-> chain_id]
BackFillSync(epoch) == [kind |-> "BackFillSync", epoch |-> epoch]
Success(flag) == [kind |-> "Success", flag |-> flag]
Failed(imported_blocks, peer_action) ==
    [kind |-> "Failed", imported_blocks |-> imported_blocks, peer_action |-> peer_action]
BatchProcessed(sync_type, result) ==
    [msg |-> "BatchProcessed", sync_type |-> sync_type, result |-> result]
ParentLookupFailed(peer_id, chain_head) ==
    [msg |-> "ParentLookupFailed", peer_id |-> peer_id, chain_head |-> chain_head]

\* Worker::send_sync_message: one send to the sync coordinator.
send_sync_message(sent, message) == Append(sent, message)

\* The blocks of a parent lookup taken in the order given (no .rev()).
Reverse_OrderGiven(s) == s

\* downloaded_blocks.iter().rev() (line 191)
Reverse(s) == [i \in 1..Len(s) |-> s[Len(s) + 1 - i]]

\* The RangeBatchId arm's match with the Failed flag of the BackSyncBatchId
\* arm.
range_batch_result_FailedFlagFalse(blocks, ret) ==
    IF ret.r.ok
    THEN Success(Len(blocks) > 0)
    ELSE Failed(FALSE, ret.r.peer_action)

\* Lines 116-142: the RangeBatchId arm's match on the importer's answer.
range_batch_result(blocks, ret) ==
    IF ret.r.ok
    THEN Success(Len(blocks) > 0)
    ELSE Failed(ret.imported_blocks > 0, ret.r.peer_action)

\* The BackSyncBatchId arm's match that drops the importer's peer action.
backfill_batch_result_DropsPeerAction(blocks, ret) ==
    IF ret.r.ok
    THEN Success(Len(blocks) > 0)
    ELSE Failed(FALSE, NoPeerAction)

\* Lines 154-176: the BackSyncBatchId arm's match on the importer's answer.
backfill_batch_result(blocks, ret) ==
    IF ret.r.ok
    THEN Success(Len(blocks) > 0)
    ELSE Failed(FALSE, ret.r.peer_action)

\* The RangeBatchId arm that reports a batch only when it succeeded.
range_batch_arm_SilentOnFailure(sent, pid, blocks, ret) ==
    IF ret.r.ok
    THEN send_sync_message(sent,
            BatchProcessed(RangeSync(pid.epoch, pid.chain_id),
                           range_batch_result(blocks, ret)))
    ELSE sent

\* Lines 111-147: the RangeBatchId arm once process_blocks has returned.
range_batch_arm(sent, pid, blocks, ret) ==
    send_sync_message(sent,
        BatchProcessed(RangeSync(pid.epoch, pid.chain_id), range_batch_result(blocks, ret)))

\* Lines 149-181: the BackSyncBatchId arm once process_backfill_blocks has
\* returned.
backfill_batch_arm(sent, pid, blocks, ret) ==
    send_sync_message(sent,
        BatchProcessed(BackFillSync(pid.epoch), backfill_batch_result(blocks, ret)))

\* The ParentLookup arm with its two match arms exchanged.
parent_lookup_arm_NotifiesOnOk(sent, pid, ret) ==
    IF ret.r.ok
    THEN send_sync_message(sent, ParentLookupFailed(pid.peer_id, pid.chain_head))
    ELSE sent

\* Lines 191-202: the ParentLookup arm once process_blocks has returned.
parent_lookup_arm(sent, pid, ret) ==
    IF ~ret.r.ok
    THEN send_sync_message(sent, ParentLookupFailed(pid.peer_id, pid.chain_head))
    ELSE sent

\* Lines 109-116, 154, 191: the dispatcher takes a unit of work and hands its
\* blocks to the chain collaborator, a parent lookup's in reverse.
ProcessChainSegment(w, pids, batches) ==
    /\ Free(w)
    /\ \E pid \in pids, blocks \in batches :
        /\ process_id' = [process_id EXCEPT ![w] = <<pid>>]
        /\ downloaded_blocks' = [downloaded_blocks EXCEPT ![w] = blocks]
        /\ segment' = [segment EXCEPT ![w] =
                IF pid.kind = "ParentLookup" THEN Reverse(blocks) ELSE blocks]
        /\ pc' = [pc EXCEPT ![w] =
                IF pid.kind = "BackSyncBatchId" THEN "import_historical_block_batch"
                                                ELSE "process_chain_segment"]
    /\ UNCHANGED <<cache, gossip, rpcVars, chain_result, returned, fork_choice,
                   logged, sync_sent>>

\* chain.process_chain_segment answers; the rest of process_blocks and of the
\* RangeBatchId or ParentLookup arm runs (lines 116-147, 191-202, 213-234).
ChainSegmentReturns(w, errors) ==
    /\ pc[w] = "process_chain_segment"
    /\ \E result \in ChainSegmentResults(segment[w], errors) :
       \E fc \in (IF result.imported_blocks > 0 THEN BOOLEAN ELSE {TRUE}) :
        LET pid == process_id[w][1]
            ret == process_blocks(result, fc)
        IN  /\ chain_result' = [chain_result EXCEPT ![w] = <<result>>]
            /\ returned' = [returned EXCEPT ![w] =
                    <<[imported_blocks |-> ret.imported_blocks, r |-> ret.r]>>]
            /\ fork_choice' = [fork_choice EXCEPT ![w] = ret.fork_choice]
            /\ logged' = [logged EXCEPT ![w] =
                    IF result.kind = "Failed" THEN classifier_log(result.error)
                                              ELSE <<>>]
            /\ sync_sent' = [sync_sent EXCEPT ![w] =
                    IF pid.kind = "RangeBatchId"
                    THEN range_batch_arm(@, pid, downloaded_blocks[w], ret)
                    ELSE parent_lookup_arm(@, pid, ret)]
    /\ pc' = [pc EXCEPT ![w] = "segment_done"]
    /\ UNCHANGED <<cache, gossip, rpcVars, process_id, downloaded_blocks, segment>>

\* chain.import_historical_block_batch answers; the rest of
\* process_backfill_blocks and of the BackSyncBatchId arm runs (lines 154-180,
\* 242-348).
HistoricalBatchReturns(w, errors) ==
    /\ pc[w] = "import_historical_block_batch"
    /\ \E result \in HistoricalResults(segment[w], errors) :
        LET pid == process_id[w][1]
            ret == process_backfill_blocks(result)
        IN  /\ chain_result' = [chain_result EXCEPT ![w] = <<result>>]
            /\ returned' = [returned EXCEPT ![w] =
                    <<[imported_blocks |-> ret.imported_blocks, r |-> ret.r]>>]
            /\ fork_choice' = [fork_choice EXCEPT ![w] = ret.fork_choice]
            /\ sync_sent' = [sync_sent EXCEPT ![w] =
                    backfill_batch_arm(@, pid, downloaded_blocks[w], ret)]
    /\ pc' = [pc EXCEPT ![w] = "segment_done"]
    /\ UNCHANGED <<cache, gossip, rpcVars, process_id, downloaded_blocks, segment,
                   logged>>

\* The batches of at most n blocks.
Batches(n) == UNION {[1..k -> BlockIds] : k \in 0..n}

\* ------------------------------------------------------- specifications
\* RpcSpec: concurrent single-block imports and the gossip path.
RpcErrors == {BlockError("ParentUnknown")}

RpcNext ==
    \/ \E b \in BlockIds : GossipClaim(b)
    \/ \E b \in BlockIds : GossipRelease(b)
    \/ \E w \in Workers, b \in BlockIds : RpcClaim(w, b)
    \/ \E w \in Workers : RpcProcessBlockReturns(w, RpcErrors)
    \/ \E w \in Workers : RpcNotify(w, BOOLEAN)
    \/ \E w \in Workers : RpcRespond(w, BOOLEAN)
    \/ \E w \in Workers : RpcDrop(w)
    \/ \E w \in Workers : RpcRespondKnown(w, BOOLEAN)
    \/ \E w \in Workers : Return(w)

RpcSpec == Init /\ [][RpcNext]_vars

\* Spec: every ingestion path at once, with one process id of each kind,
\* batches of one block, a chain that accepts and channels that deliver (the
\* handlers' positions do not depend on what is left out).
ConcProcessIds == {RangeBatchId("c1", 0), BackSyncBatchId(0), ParentLookup("p1", 1)}
ConcBatches == {<<b>> : b \in BlockIds}

Next ==
    \/ \E b \in BlockIds : GossipClaim(b)
    \/ \E b \in BlockIds : GossipRelease(b)
    \/ \E w \in Workers, b \in BlockIds : RpcClaim(w, b)
    \/ \E w \in Workers : RpcProcessBlockReturns(w, {})
    \/ \E w \in Workers : RpcNotify(w, {TRUE})
    \/ \E w \in Workers : RpcRespond(w, {TRUE})
    \/ \E w \in Workers : RpcDrop(w)
    \/ \E w \in Workers : RpcRespondKnown(w, {TRUE})
    \/ \E w \in Workers : ProcessChainSegment(w, ConcProcessIds, ConcBatches)
    \/ \E w \in Workers : ChainSegmentReturns(w, {})
    \/ \E w \in Workers : HistoricalBatchReturns(w, {})
    \/ \E w \in Workers : Return(w)

Spec == Init /\ [][Next]_vars

\* DispatchSpec: one batch at a time on worker 1, over every process id, every
\* batch of at most MaxBatch blocks and every answer of the chain.
DispatchNext ==
    \/ ProcessChainSegment(1, ProcessIds, Batches(MaxBatch))
    \/ ChainSegmentReturns(1, BlockErrors)
    \/ HistoricalBatchReturns(1, HistoricalErrors)
    \/ Return(1)

DispatchSpec == Init /\ [][DispatchNext]_vars

\* ================================================================ claims
\* The workers holding a handle on root b, and those inside
\* chain.process_block for b.
Holders(b) == {w \in Workers : handle[w] = <<b>>}
InProcessBlock(b) == {w \in Workers : pc[w] = "process_block" /\ block[w] = b}
GossipHolds(b) == IF b \in gossip THEN 1 ELSE 0

\* C1: for every block root at most one claimant (a process_rpc_block
\* invocation or the gossip path) holds a handle at any time, and no two
\* invocations are inside chain.process_block for the same root at once.
C1_AtMostOneHolder ==
    \A b \in BlockIds :
        /\ Cardinality(Holders(b)) + GossipHolds(b) <= 1
        /\ Cardinality(InProcessBlock(b)) <= 1

\* Two invocations claimed the same root: one got the handle and is inside
\* process_block, the other got None.
C1_Witness ==
    \E w1 \in Workers : \E w2 \in Workers \ {w1} :
        /\ block[w1] = block[w2]
        /\ pc[w1] = "process_block" /\ claimed[w1] = <<TRUE>>
        /\ handle[w1] = <<block[w1]>>
        /\ pc[w2] = "respond_known" /\ claimed[w2] = <<FALSE>>
        /\ handle[w2] = <<>>

\* The workers whose batch, with root b in it, is at the chain collaborator.
Range(s) == {s[i] : i \in DOMAIN s}
InBatchImport(b) ==
    {w \in Workers : /\ pc[w] \in {"process_chain_segment", "import_historical_block_batch"}
                     /\ b \in Range(segment[w])}

\* C2 as stated: over the single-block path and the batch paths (range,
\* parent lookup, backfill) at most one import attempt per root is in
\* progress at the chain collaborator.
C2_OneImportOverAllPaths ==
    \A b \in BlockIds :
        Cardinality(InProcessBlock(b)) + Cardinality(InBatchImport(b)) <= 1

\* C2 amended: at most one import attempt per root is in progress among the
\* paths that claim the duplicate cache (single block and gossip); a batch
\* import holds no handle and leaves the cache as it is, so the cache holds
\* exactly the roots of the single-block and gossip imports in progress.
C2_OneImportOverGuardedPaths ==
    /\ \A b \in BlockIds : Cardinality(InProcessBlock(b)) + GossipHolds(b) <= 1
    /\ \A w \in Workers :
        pc[w] \in {"process_chain_segment", "import_historical_block_batch", "segment_done"}
            => handle[w] = <<>> /\ claimed[w] = <<>>
    /\ cache = gossip \cup {b \in BlockIds : Holders(b) # {}}

\* The gossip path imports a root, a single-block request for it was turned
\* away, and a batch with the same root is at the chain collaborator.
C2_Witness ==
    \E b \in BlockIds, w1 \in Workers, w2 \in Workers :
        /\ b \in gossip
        /\ block[w1] = b /\ claimed[w1] = <<FALSE>> /\ process_block_calls[w1] = 0
        /\ w2 \in InBatchImport(b)

\* C3: a single-block request whose claim gave None (the root is held by an
\* import in flight) never calls chain.process_block, never attempts a
\* BlockImported notification, can answer at once whatever the other import
\* does, and its one answer is Err(BlockIsAlreadyKnown).
C3_KnownShortCircuits ==
    \A w \in Workers :
        claimed[w] = <<FALSE>> =>
            /\ pc[w] \in {"respond_known", "rpc_done"}
            /\ process_block_calls[w] = 0
            /\ block_result[w] = <<>>
            /\ reprocess_sent[w] = <<>>
            /\ pc[w] = "respond_known" =>
                /\ result_sent[w] = <<>>
                /\ ENABLED RpcRespondKnown(w, BOOLEAN)
            /\ pc[w] = "rpc_done" =>
                /\ Len(result_sent[w]) = 1
                /\ result_sent[w][1].result = ErrBlock(BlockError("BlockIsAlreadyKnown"))

\* A request answered "already known" while the import that holds the root is
\* still inside process_block.
C3_Witness ==
    \E w1 \in Workers : \E w2 \in Workers \ {w1} :
        /\ pc[w1] = "process_block" /\ handle[w1] = <<block[w2]>>
        /\ claimed[w2] = <<FALSE>> /\ pc[w2] = "rpc_done"
        /\ Len(result_sent[w2]) = 1

\* C4: every process_rpc_block invocation makes exactly one send attempt on
\* result_tx: none before the send, one after it, on the claimed paths
\* (import Ok or Err, notification delivered or not) and the unclaimed path,
\* and a failed send is not repeated.
C4_OneResponse ==
    \A w \in Workers :
        /\ pc[w] \in {"process_block", "notify", "respond", "respond_known"}
            => result_sent[w] = <<>>
        /\ pc[w] \in {"drop", "rpc_done"} => Len(result_sent[w]) = 1

\* An invocation is over whose notification and whose answer both failed to
\* be delivered.
C4_Witness ==
    \E w \in Workers :
        /\ pc[w] = "rpc_done" /\ claimed[w] = <<TRUE>>
        /\ Len(reprocess_sent[w]) = 1 /\ ~reprocess_sent[w][1].delivered
        /\ Len(result_sent[w]) = 1 /\ ~result_sent[w][1].delivered

\* C5: once a process_rpc_block invocation is over it holds no handle, on
\* every path, and the cache holds no root but those of handles still held:
\* the root of a finished invocation is claimable unless another claimant has
\* taken it since.
C5_HandleReleased ==
    /\ \A w \in Workers : pc[w] \in {"idle", "rpc_done"} => handle[w] = <<>>
    /\ \A b \in cache : b \in gossip \/ Holders(b) # {}
    /\ \A w \in Workers :
        (pc[w] = "rpc_done" /\ block[w] \notin gossip /\ Holders(block[w]) = {})
            => check_and_insert(cache, block[w]).handle = <<block[w]>>

\* An invocation that held the handle is over after a failed import and a
\* failed answer, and its root is out of the cache.
C5_Witness ==
    \E w \in Workers :
        /\ pc[w] = "rpc_done" /\ claimed[w] = <<TRUE>>
        /\ ~block_result[w][1].ok
        /\ ~result_sent[w][1].delivered
        /\ block[w] \notin cache

\* The batch invocations that are over, by the kind of their process id.
SegmentDone(w) == pc[w] = "segment_done"
Kind(w) == process_id[w][1].kind

\* C6 as stated: every process_chain_segment invocation, whatever its
\* process id and the import's outcome, sends exactly one message to the sync
\* coordinator.
C6_ExactlyOneMessage ==
    \A w \in Workers : SegmentDone(w) => Len(sync_sent[w]) = 1

\* C6 amended: a RangeBatchId or BackSyncBatchId invocation sends exactly one
\* message, on success and on failure; a ParentLookup invocation sends
\* exactly one when the importer returned Err and none when it returned Ok;
\* nothing is sent before the chain has answered.
C6_OneMessageUnlessLookupOk ==
    \A w \in Workers :
        /\ pc[w] \in {"process_chain_segment", "import_historical_block_batch"}
            => sync_sent[w] = <<>>
        /\ SegmentDone(w) =>
            Len(sync_sent[w]) =
                IF Kind(w) = "ParentLookup" /\ returned[w][1].r.ok THEN 0 ELSE 1

\* A parent lookup whose blocks the chain took is over and nothing was sent.
C6_Witness ==
    \E w \in Workers :
        /\ SegmentDone(w) /\ Kind(w) = "ParentLookup"
        /\ chain_result[w][1].kind = "Successful"
        /\ chain_result[w][1].imported_blocks > 0
        /\ sync_sent[w] = <<>>

\* The flag of a BatchProcessed outcome, and the imported-block count the
\* chain reported for the batch (an Err of the historical import reports
\* none).
OutcomeFlag(result) ==
    IF result.kind = "Success" THEN result.flag ELSE result.imported_blocks
ReportedCount(w) ==
    IF Kind(w) = "BackSyncBatchId"
    THEN IF chain_result[w][1].ok THEN chain_result[w][1].imported_blocks ELSE 0
    ELSE chain_result[w][1].imported_blocks

\* C7 as stated: the flag of every BatchProcessed outcome of a range or
\* backfill batch, Success or Failed, is true iff the chain reported an
\* imported-block count above zero.
C7_FlagIffImported ==
    \A w \in Workers :
        (SegmentDone(w) /\ Kind(w) \in {"RangeBatchId", "BackSyncBatchId"}) =>
            OutcomeFlag(sync_sent[w][1].result) = (ReportedCount(w) > 0)

\* C7 amended: the flag of a Success outcome is true iff the batch given to
\* the dispatcher was non-empty; imported_blocks of a Failed range outcome is
\* true iff the chain reported an imported count above zero; imported_blocks
\* of a Failed backfill outcome is false.
C7_FlagAsSent ==
    \A w \in Workers :
        (SegmentDone(w) /\ Kind(w) \in {"RangeBatchId", "BackSyncBatchId"}) =>
            LET result == sync_sent[w][1].result IN
            /\ sync_sent[w][1].msg = "BatchProcessed"
            /\ result.kind = "Success" => result.flag = (Len(downloaded_blocks[w]) > 0)
            /\ (result.kind = "Failed" /\ Kind(w) = "RangeBatchId") =>
                    result.imported_blocks = (chain_result[w][1].imported_blocks > 0)
            /\ (result.kind = "Failed" /\ Kind(w) = "BackSyncBatchId") =>
                    result.imported_blocks = FALSE

\* A non-empty range batch of which the chain imported nothing, all blocks
\* being known, was reported Success(true).
C7_Witness ==
    \E w \in Workers :
        /\ SegmentDone(w) /\ Kind(w) = "RangeBatchId"
        /\ Len(downloaded_blocks[w]) > 0
        /\ chain_result[w][1] = FailedSegment(0, BlockError("BlockIsAlreadyKnown"))
        /\ sync_sent[w][1].result = Success(TRUE)

\* C8: process_blocks (range batch and parent lookup) calls fork choice once
\* if the chain reported imported_blocks > 0, for a Successful and for a
\* Failed segment, and not at all if it reported 0.  A 5-block range batch
\* failing with ParentUnknown after 2 imports returns imported 2, is reported
\* Failed{imported_blocks: true, LowToleranceError} and runs fork choice once.
C8_ForkChoiceIffImported ==
    \A w \in Workers :
        (SegmentDone(w) /\ Kind(w) \in {"RangeBatchId", "ParentLookup"}) =>
            /\ Len(fork_choice[w]) =
                    IF chain_result[w][1].imported_blocks > 0 THEN 1 ELSE 0
            /\ (/\ Kind(w) = "RangeBatchId"
                /\ Len(downloaded_blocks[w]) = 5
                /\ chain_result[w][1] = FailedSegment(2, BlockError("ParentUnknown")))
                => /\ returned[w][1].imported_blocks = 2
                   /\ sync_sent[w][1].result = Failed(TRUE, LowToleranceError)
                   /\ Len(fork_choice[w]) = 1

\* The 5-block range batch that failed at its third block with ParentUnknown.
C8_Witness ==
    \E w \in Workers :
        /\ SegmentDone(w) /\ Kind(w) = "RangeBatchId"
        /\ Len(downloaded_blocks[w]) = 5
        /\ chain_result[w][1] = FailedSegment(2, BlockError("ParentUnknown"))
        /\ Len(fork_choice[w]) = 1

\* C9: a backfill batch never calls fork choice, whatever its size and the
\* historical import's answer; a non-empty backfill batch all of whose blocks
\* were imported is reported Success(true).
C9_BackfillNoForkChoice ==
    \A w \in Workers :
        (process_id[w] # <<>> /\ Kind(w) = "BackSyncBatchId") =>
            /\ fork_choice[w] = <<>>
            /\ (/\ SegmentDone(w)
                /\ Len(downloaded_blocks[w]) > 0
                /\ chain_result[w][1] = OkImported(Len(downloaded_blocks[w])))
                => sync_sent[w][1].result = Success(TRUE)

\* A 3-block backfill batch, all imported, is over.
C9_Witness ==
    \E w \in Workers :
        /\ SegmentDone(w) /\ Kind(w) = "BackSyncBatchId"
        /\ Len(downloaded_blocks[w]) = 3
        /\ chain_result[w][1] = OkImported(3)
        /\ fork_choice[w] = <<>>

\* The verdict of the spec's table (4.5) for a rejection reason.
TableVerdict(error) ==
    IF error.kind \in {"BlockIsAlreadyKnown", "WouldRevertFinalizedSlot", "GenesisBlock"}
    THEN OkUnit
    ELSE IF error.kind \in {"ParentUnknown", "FutureSlot"}
         THEN ChainSegmentFailed(LowToleranceError)
         ELSE ChainSegmentFailed(NoPeerAction)

\* C10: for every rejection the chain fails a segment with, the Result that
\* process_blocks returns is the table's: ParentUnknown and FutureSlot give
\* Err with LowToleranceError; BlockIsAlreadyKnown, WouldRevertFinalizedSlot
\* and GenesisBlock give Ok; BeaconChainError and every other rejection give
\* Err with no peer action.
C10_ClassifierTable ==
    \A w \in Workers :
        (/\ SegmentDone(w) /\ Kind(w) \in {"RangeBatchId", "ParentLookup"}
         /\ chain_result[w][1].kind = "Failed")
            => returned[w][1].r = TableVerdict(chain_result[w][1].error)

\* A segment failed on a rejection of the classifier's `other` arm and the
\* failure carries no peer action.
C10_Witness ==
    \E w \in Workers :
        /\ SegmentDone(w) /\ Kind(w) \in {"RangeBatchId", "ParentLookup"}
        /\ chain_result[w][1].kind = "Failed"
        /\ chain_result[w][1].error.kind \in OtherBlockErrorKinds
        /\ returned[w][1].r = ChainSegmentFailed(NoPeerAction)

\* The peer action of the spec's table (4.4) for an error of the historical
\* import.
BackfillTableAction(error) ==
    IF /\ error.kind = "HistoricalBlockError"
       /\ error.e \in {"MismatchedBlockRoot", "InvalidSignature", "SignatureSet"}
    THEN LowToleranceError
    ELSE NoPeerAction

\* C11: for every error of the historical import, process_backfill_blocks
\* returns imported count 0 and an Err (never Ok) whose peer action is the
\* table's: LowToleranceError for MismatchedBlockRoot, InvalidSignature and
\* SignatureSet, none for ValidatorPubkeyCacheTimeout, NoAnchorInfo,
\* IndexOutOfBounds, BlockOutOfRange and any other chain error.
C11_BackfillTable ==
    \A w \in Workers :
        (SegmentDone(w) /\ Kind(w) = "BackSyncBatchId" /\ ~chain_result[w][1].ok) =>
            /\ returned[w][1].imported_blocks = 0
            /\ ~returned[w][1].r.ok
            /\ returned[w][1].r.peer_action = BackfillTableAction(chain_result[w][1].error)

\* A backfill batch failed on a pubkey cache timeout and carries no penalty.
C11_Witness ==
    \E w \in Workers :
        /\ SegmentDone(w) /\ Kind(w) = "BackSyncBatchId"
        /\ chain_result[w][1] = ErrChain(HistoricalBlockError("ValidatorPubkeyCacheTimeout"))
        /\ returned[w][1] = [imported_blocks |-> 0, r |-> ChainSegmentFailed(NoPeerAction)]

\* C12: a FutureSlot rejection is classified Err with LowToleranceError for
\* every (present_slot, block_slot), on either side of
\* present_slot + FUTURE_SLOT_TOLERANCE, and a range batch that fails on it is
\* reported with that peer action.
C12_FutureSlotAlwaysPenalized ==
    \A w \in Workers :
        (/\ SegmentDone(w) /\ Kind(w) \in {"RangeBatchId", "ParentLookup"}
         /\ chain_result[w][1].kind = "Failed"
         /\ chain_result[w][1].error.kind = "FutureSlot") =>
            /\ returned[w][1].r = ChainSegmentFailed(LowToleranceError)
            /\ Kind(w) = "RangeBatchId" =>
                    /\ sync_sent[w][1].result.kind = "Failed"
                    /\ sync_sent[w][1].result.peer_action = LowToleranceError

\* A range batch failed on a block exactly at the tolerance
\* (block_slot = present_slot + FUTURE_SLOT_TOLERANCE) and is penalized.
C12_Witness ==
    \E w \in Workers :
        /\ SegmentDone(w) /\ Kind(w) = "RangeBatchId"
        /\ chain_result[w][1].kind = "Failed"
        /\ chain_result[w][1].error.kind = "FutureSlot"
        /\ chain_result[w][1].error.block_slot =
                chain_result[w][1].error.present_slot + FUTURE_SLOT_TOLERANCE
        /\ returned[w][1].r = ChainSegmentFailed(LowToleranceError)

\* C13: the sequence handed to chain.process_chain_segment for a ParentLookup
\* with blocks [b1, ..., bn] is [bn, ..., b1], the same blocks with none
\* dropped or duplicated; for a RangeBatchId it is the blocks as given.
C13_LookupReversed ==
    \A w \in Workers :
        process_id[w] # <<>> =>
            LET given == downloaded_blocks[w]
                handed == segment[w]
            IN  /\ Len(handed) = Len(given)
                /\ Kind(w) = "ParentLookup" =>
                        \A i \in 1..Len(given) : handed[i] = given[Len(given) + 1 - i]
                /\ Kind(w) = "RangeBatchId" =>
                        \A i \in 1..Len(given) : handed[i] = given[i]

\* A parent lookup of three blocks, the newest first, is at the chain with
\* the oldest first.
C13_Witness ==
    \E w \in Workers :
        /\ pc[w] = "process_chain_segment" /\ Kind(w) = "ParentLookup"
        /\ downloaded_blocks[w] = <<2, 2, 1>>
        /\ segment[w] = <<1, 2, 2>>

\* C14: a ParentLookup(peer_id, chain_head) sends ParentLookupFailed, with
\* that peer_id and chain_head, iff process_blocks returned Err; when it
\* returned Ok (the import succeeded or stopped on a benign rejection) nothing
\* is sent, and a BatchProcessed is never sent for a parent lookup.
C14_LookupFailedIffErr ==
    \A w \in Workers :
        (process_id[w] # <<>> /\ Kind(w) = "ParentLookup") =>
            /\ \A i \in 1..Len(sync_sent[w]) : sync_sent[w][i].msg # "BatchProcessed"
            /\ SegmentDone(w) =>
                sync_sent[w] =
                    IF returned[w][1].r.ok
                    THEN <<>>
                    ELSE <<[msg |-> "ParentLookupFailed",
                            peer_id |-> process_id[w][1].peer_id,
                            chain_head |-> process_id[w][1].chain_head]>>

\* The parent lookup of peer p2 for head 2 failed on an unknown parent and
\* the coordinator was told so.
C14_Witness ==
    \E w \in Workers :
        /\ SegmentDone(w)
        /\ process_id[w][1] = ParentLookup("p2", 2)
        /\ chain_result[w][1].kind = "Failed"
        /\ chain_result[w][1].error = BlockError("ParentUnknown")
        /\ sync_sent[w] = <<ParentLookupFailed("p2", 2)>>

\* C15: process_rpc_block attempts BlockImported(root) on reprocess_tx iff it
\* held the handle and chain.process_block returned Ok(root): once, with that
\* root, before the answer; never when the import failed or the claim gave
\* None.  Whether the notification was delivered or not, the answer sent is
\* the Ok(root) the chain returned.
C15_NotifyIffImported ==
    \A w \in Workers :
        /\ pc[w] \in {"process_block", "notify", "respond_known"}
            => reprocess_sent[w] = <<>>
        /\ claimed[w] = <<FALSE>> => reprocess_sent[w] = <<>>
        /\ (pc[w] \in {"respond", "drop", "rpc_done"} /\ claimed[w] = <<TRUE>>) =>
            IF block_result[w][1].ok
            THEN /\ Len(reprocess_sent[w]) = 1
                 /\ reprocess_sent[w][1].msg = "BlockImported"
                 /\ reprocess_sent[w][1].root = block_result[w][1].root
            ELSE reprocess_sent[w] = <<>>
        /\ (pc[w] \in {"drop", "rpc_done"} /\ Len(reprocess_sent[w]) = 1) =>
            result_sent[w][1].result = OkRoot(reprocess_sent[w][1].root)

\* An import succeeded, its notification could not be sent, and Ok(root) was
\* answered.
C15_Witness ==
    \E w \in Workers :
        /\ pc[w] = "rpc_done" /\ claimed[w] = <<TRUE>>
        /\ Len(reprocess_sent[w]) = 1 /\ ~reprocess_sent[w][1].delivered
        /\ result_sent[w][1].result = OkRoot(block[w])

\* What process_blocks returns for an answer of the chain, whatever fork
\* choice did.
ExpectedReturn(result) ==
    [imported_blocks |-> result.imported_blocks,
     r |-> IF result.kind = "Successful" THEN OkUnit
                                         ELSE TableVerdict(result.error)]

\* C16: what process_blocks returns and what is sent to the coordinator are
\* fixed by the chain's answer for the segment, whether the fork choice call
\* succeeded or failed; a Successful segment whose fork choice failed is still
\* returned Ok and reported Success.
C16_ForkChoiceFailureSwallowed ==
    \A w \in Workers :
        (SegmentDone(w) /\ Kind(w) \in {"RangeBatchId", "ParentLookup"}) =>
            LET ret == ExpectedReturn(chain_result[w][1]) IN
            /\ returned[w][1] = ret
            /\ Kind(w) = "RangeBatchId" =>
                /\ Len(sync_sent[w]) = 1
                /\ sync_sent[w][1].result.kind = IF ret.r.ok THEN "Success" ELSE "Failed"
                /\ ~ret.r.ok =>
                    sync_sent[w][1].result =
                        Failed(ret.imported_blocks > 0, ret.r.peer_action)
            /\ Kind(w) = "ParentLookup" => (sync_sent[w] = <<>>) = ret.r.ok

\* A range batch was imported, the fork choice call failed, and the batch was
\* reported Success.
C16_Witness ==
    \E w \in Workers :
        /\ SegmentDone(w) /\ Kind(w) = "RangeBatchId"
        /\ chain_result[w][1].kind = "Successful"
        /\ fork_choice[w] = <<FALSE>>
        /\ returned[w][1].r = OkUnit
        /\ sync_sent[w][1].result.kind = "Success"

\* The rejections handle_failed_chain_segment swallows.
BenignKinds == {"BlockIsAlreadyKnown", "WouldRevertFinalizedSlot", "GenesisBlock"}
StoppedOnBenign(w) ==
    /\ SegmentDone(w) /\ Kind(w) = "RangeBatchId"
    /\ chain_result[w][1].kind = "Failed"
    /\ chain_result[w][1].error.kind \in BenignKinds

\* C17 as stated: a range batch whose import stops on a benign rejection
\* (already known, would revert finalized slot, genesis block) is reported as
\* a Success outcome whose flag is false.
C17_BenignReportedNoImports ==
    \A w \in Workers :
        StoppedOnBenign(w) =>
            /\ Len(sync_sent[w]) = 1
            /\ sync_sent[w][1].result = Success(FALSE)

\* C17: a range batch whose import stops on a benign rejection is returned Ok
\* and reported Success, never Failed and with no peer action, and the flag of
\* the Success is true iff the batch handed over was non-empty, whatever
\* number of blocks was imported before the rejection.
C17_BenignReportedSuccess ==
    \A w \in Workers :
        StoppedOnBenign(w) =>
            /\ returned[w][1].r = OkUnit
            /\ Len(sync_sent[w]) = 1
            /\ sync_sent[w][1].msg = "BatchProcessed"
            /\ sync_sent[w][1].result = Success(Len(downloaded_blocks[w]) > 0)

\* A range batch stopped on an already known block with nothing imported and
\* was reported Success(true).
C17_Witness ==
    \E w \in Workers :
        /\ StoppedOnBenign(w)
        /\ chain_result[w][1] = FailedSegment(0, BlockError("BlockIsAlreadyKnown"))
        /\ sync_sent[w][1].result = Success(TRUE)

\* The peer actions of the messages a worker has sent.
SentPeerActions(w) ==
    {sync_sent[w][i].result.peer_action :
        i \in {j \in 1..Len(sync_sent[w]) :
                  /\ sync_sent[w][j].msg = "BatchProcessed"
                  /\ sync_sent[w][j].result.kind = "Failed"}}

\* C18: every peer action the classifiers return and every peer action of a
\* message sent to the coordinator is None or LowToleranceError.
C18_LowToleranceOrNone ==
    \A w \in Workers :
        /\ SentPeerActions(w) \subseteq {NoPeerAction, LowToleranceError}
        /\ (SegmentDone(w) /\ ~returned[w][1].r.ok) =>
                returned[w][1].r.peer_action \in {NoPeerAction, LowToleranceError}

\* A backfill batch failed on a bad signature and was reported Failed with
\* LowToleranceError.
C18_Witness ==
    \E w \in Workers :
        /\ SegmentDone(w) /\ Kind(w) = "BackSyncBatchId"
        /\ chain_result[w][1] = ErrChain(HistoricalBlockError("InvalidSignature"))
        /\ SentPeerActions(w) = {LowToleranceError}

\* C19 as stated: a FutureSlot rejection with
\* block_slot <= present_slot + FUTURE_SLOT_TOLERANCE is logged at debug, and
\* one with block_slot > present_slot + FUTURE_SLOT_TOLERANCE is logged at
\* warn.
C19_SeverityFollowsWindow ==
    \A w \in Workers :
        (/\ SegmentDone(w) /\ Kind(w) \in {"RangeBatchId", "ParentLookup"}
         /\ chain_result[w][1].kind = "Failed"
         /\ chain_result[w][1].error.kind = "FutureSlot") =>
            LET error == chain_result[w][1].error IN
            logged[w] = IF error.block_slot <= error.present_slot + FUTURE_SLOT_TOLERANCE
                        THEN <<"debug">>
                        ELSE <<"warn">>

\* C20: a range batch's message is tagged RangeSync with the epoch and chain
\* id of the process id and a backfill batch's BackFillSync with its epoch;
\* the outcome is Failed iff the importer returned Err, and a Failed outcome
\* carries the importer's peer action.
C20_VerdictForwarded ==
    \A w \in Workers :
        (SegmentDone(w) /\ Kind(w) \in {"RangeBatchId", "BackSyncBatchId"}) =>
            LET pid == process_id[w][1]
                ret == returned[w][1]
                m == sync_sent[w][1] IN
            /\ Len(sync_sent[w]) = 1
            /\ m.msg = "BatchProcessed"
            /\ m.sync_type = IF pid.kind = "RangeBatchId"
                             THEN RangeSync(pid.epoch, pid.chain_id)
                             ELSE BackFillSync(pid.epoch)
            /\ (m.result.kind = "Failed") = ~ret.r.ok
            /\ ~ret.r.ok => m.result.peer_action = ret.r.peer_action

\* A backfill batch of epoch 1 failed with LowToleranceError and was reported
\* Failed with that peer action under BackFillSync(1).
C20_Witness ==
    \E w \in Workers :
        /\ SegmentDone(w)
        /\ process_id[w][1] = BackSyncBatchId(1)
        /\ returned[w][1].r = ChainSegmentFailed(LowToleranceError)
        /\ sync_sent[w][1].sync_type = BackFillSync(1)
        /\ sync_sent[w][1].result = Failed(FALSE, LowToleranceError)

\* The worker holds the handle of the root it was given.
HoldsHandle(w) == handle[w] = <<block[w]>> /\ block[w] \in cache

\* Where a claimed process_rpc_block stands, step by step: process_block
\* first, then the notification (after Ok only), then the answer, then the
\* drop of the handle.
ClaimedPathOrder(w) ==
    /\ pc[w] = "process_block" =>
        /\ block_result[w] = <<>> /\ reprocess_sent[w] = <<>> /\ result_sent[w] = <<>>
        /\ HoldsHandle(w)
    /\ pc[w] = "notify" =>
        /\ process_block_calls[w] = 1 /\ block_result[w] = <<OkRoot(block[w])>>
        /\ reprocess_sent[w] = <<>> /\ result_sent[w] = <<>>
        /\ HoldsHandle(w)
    /\ pc[w] = "respond" =>
        /\ process_block_calls[w] = 1 /\ Len(block_result[w]) = 1
        /\ Len(reprocess_sent[w]) = IF block_result[w][1].ok THEN 1 ELSE 0
        /\ result_sent[w] = <<>>
        /\ HoldsHandle(w)
    /\ pc[w] = "drop" =>
        /\ Len(result_sent[w]) = 1 /\ result_sent[w][1].result = block_result[w][1]
        /\ HoldsHandle(w)
    /\ pc[w] = "rpc_done" =>
        /\ Len(result_sent[w]) = 1
        /\ handle[w] = <<>>

\* A request that found the root claimed never calls the chain and answers
\* Err(BlockIsAlreadyKnown).
KnownPathOrder(w) ==
    /\ process_block_calls[w] = 0 /\ reprocess_sent[w] = <<>> /\ handle[w] = <<>>
    /\ pc[w] \in {"respond_known", "rpc_done"}
    /\ pc[w] = "rpc_done" =>
        /\ Len(result_sent[w]) = 1
        /\ result_sent[w][1].result = ErrBlock(BlockError("BlockIsAlreadyKnown"))

\* A request for the root of a worker that has answered and not yet dropped
\* its handle takes the else-branch.
StartedBeforeRelease(w, w2) ==
    (/\ pc[w] = "drop" /\ claimed[w] = <<TRUE>>
     /\ pc[w2] = "idle" /\ pc'[w2] # "idle" /\ block'[w2] = block[w]) =>
        /\ pc'[w2] = "respond_known"
        /\ claimed'[w2] = <<FALSE>>
        /\ handle'[w2] = <<>>
        /\ cache' = cache

\* C21: a claimed process_rpc_block runs chain.process_block, then (after Ok
\* only) attempts the BlockImported notification, then sends the result, and
\* only then drops the handle, so the root is still in the cache when the
\* result is sent; a process_rpc_block for the same root that starts between
\* the answer and the drop gets no handle, never calls chain.process_block
\* and answers Err(BlockIsAlreadyKnown).
C21_RespondBeforeRelease ==
    /\ [](\A w \in Workers :
            /\ claimed[w] = <<TRUE>> => ClaimedPathOrder(w)
            /\ claimed[w] = <<FALSE>> => KnownPathOrder(w))
    /\ [][\A w \in Workers : \A w2 \in Workers \ {w} : StartedBeforeRelease(w, w2)]_vars

\* One worker has sent its result and still holds the handle, and the other
\* is free: a request for the same root that starts now takes the else-branch
\* and cannot reach chain.process_block.
C21_Witness ==
    \E w \in Workers : \E w2 \in Workers \ {w} :
        /\ pc[w] = "drop" /\ claimed[w] = <<TRUE>>
        /\ Len(result_sent[w]) = 1 /\ HoldsHandle(w)
        /\ Free(w2)
        /\ ENABLED (RpcClaim(w2, block[w]) /\ pc'[w2] = "respond_known")
        /\ ~ENABLED (RpcClaim(w2, block[w]) /\ pc'[w2] = "process_block")
====
